---- MODULE Spec2Model ----
(***************************************************************************)
(* Model of the VM disk export pipeline of main.py: login, VM lookup,      *)
(* ensure-running poll, fstrim/shutdown over ssh, qemu-img inspect and two *)
(* conversions, md5 sidecar and cleanup.  The program is one sequential    *)
(* process; every external call (HTTP request, subprocess, file system     *)
(* read, clock) is an input chosen at the step that makes the call.        *)
(*                                                                         *)
(* Python values: an optional string (None or a str) is the empty tuple    *)
(* <<>> for None and the one-element tuple <<s>> for the str s.  Install   *)
(* paths are sequences of characters so that str.strip() can be computed.  *)
(* Byte counts are in GiB units.                                           *)
(***************************************************************************)
EXTENDS Integers, Sequences, FiniteSets, TLC

\* ---- program constants -------------------------------------------------
\* MIN_FREE_BYTES = 50 * 1024 * 1024 * 1024, here in GiB
MIN_FREE_BYTES == 50
\* ensure_vm_running(max_wait = 180)
MAX_WAIT == 180
\* ensure_vm_running(settle_secs = 20)
SETTLE_SECS == 20
\* time.sleep(3) in the poll loop
POLL_SLEEP == 3
\* ssh_fstrim: retries = 3
FSTRIM_RETRIES == 3
\* ssh_fstrim: retry_interval = 30 (also the default of SSHRunner.run)
RETRY_INTERVAL == 30
\* SSHRunner.run default retries = 1, used by ssh_shutdown
DEFAULT_RETRIES == 1

\* ---- bounds of the model -----------------------------------------------
\* total seconds by which the sleeps and requests of the poll loop may take
\* longer than the nominal sleep
MaxDrift == 1
\* sizes and free-space readings range over MIN_FREE_BYTES-1 .. +MaxSizeDelta
MaxSizeDelta == 1
\* largest attempt budget tried for SSHRunner.run on its own
MaxRetries == 4

\* ---- Python values -----------------------------------------------------
None == <<>>
Str(s) == <<s>>
\* truthiness of an optional str (None and "" are falsy)
Truthy(o) == o # None /\ o[1] # ""
\* truthiness of an optional character sequence
TruthyChars(o) == o # None /\ o[1] # <<>>
\* a or b
Or(a, b) == IF Truthy(a) THEN a ELSE b

\* str.lower() on the VM states that occur
Lower(s) ==
    CASE s = "Running" -> "running"
      [] s = "RUNNING" -> "running"
      [] s = "Stopped" -> "stopped"
      [] OTHER -> s

IsSpace(c) == c = " "

RECURSIVE LStrip(_)
LStrip(s) == IF s = <<>> THEN s
             ELSE IF IsSpace(Head(s)) THEN LStrip(Tail(s)) ELSE s

RECURSIVE RStrip(_)
RStrip(s) == IF s = <<>> THEN s
             ELSE IF IsSpace(s[Len(s)]) THEN RStrip(SubSeq(s, 1, Len(s) - 1)) ELSE s

\* str.strip()
Strip(s) == RStrip(LStrip(s))

Max(a, b) == IF a >= b THEN a ELSE b

\* ---- VM records --------------------------------------------------------
ImgPath == <<"/", "i">>
Volume(t, p) == [type |-> t, installPath |-> p]

\* a get_root_install_path that forgets to test the volume type
get_root_install_path_AnyType(vols) ==
    IF vols = <<>> THEN None ELSE Head(vols).installPath

\* get_root_install_path: installPath of the first volume of type Root
RECURSIVE get_root_install_path(_)
get_root_install_path(vols) ==
    IF vols = <<>> THEN None
    ELSE IF Head(vols).type = "Root" THEN Head(vols).installPath
    ELSE get_root_install_path(Tail(vols))

\* the records get_vm_by_ip may return for the target address
Uuids == {None, Str(""), Str("u1")}
VmStates == {None, Str("Running"), Str("Stopped")}
VmNames == {None, Str("myvm")}
VolumeLists ==
    { <<>>,
      << Volume("Data", Str(ImgPath)) >>,
      << Volume("Root", None) >>,
      << Volume("Root", Str(<<>>)) >>,
      << Volume("Root", None), Volume("Root", Str(ImgPath)) >>,
      << Volume("Root", Str(ImgPath)) >>,
      << Volume("Data", None), Volume("Root", Str(<<" ">> \o ImgPath \o <<" ">>)) >> }
VMRecords ==
    [uuid : Uuids, state : VmStates, name : VmNames, allVolumes : VolumeLists]

\* ---- files of the working directory -------------------------------------
\* contents are numbers; 0 is "no such file"
Absent == 0
\* content of a file that was there before the run
OldContent == 1
\* content of the source image at the install path
SourceContent == 2
\* content left by a conversion that failed part-way
PartialContent == 3

\* what qemu-img convert writes to dst for a source of content c
Converted(c, fmt) == IF fmt = "qcow2" THEN c + 4 ELSE c + 8
\* hashlib.md5 over a file of content c (injective on the contents that occur)
Md5(c) == (c * 5 + 3) % 16

QCOW2 == "qcow2"
VDI == "vdi"
MD5EXT == "vdi.md5"
Exts == {QCOW2, VDI, MD5EXT}
FallbackName == "vm_image"
Products == {"prod", "myvm", FallbackName}
\* cfg.workdir / f"{product}.{ext}"
WorkdirPath(product, ext) == <<product, ext>>
Paths == {WorkdirPath(q, e) : q \in Products, e \in Exts}
\* vdi_path.with_suffix(vdi_path.suffix + ".md5"): the last suffix ".vdi" of the
\* name is replaced by ".vdi.md5"
WithMd5Suffix(path) == <<path[1], MD5EXT>>

\* sizes and free-space readings that are tried
SizeValues == {MIN_FREE_BYTES - 1 + k : k \in 0 .. (MaxSizeDelta + 1)}
\* int(image_info.get("actual-size", 0)): 0 when the field is missing
ActualSizes == {0} \cup SizeValues

StageOrder ==
    << "Init", "Authenticate", "Locate", "VerifyLocalPath", "EnsureRunning",
       "Quiesce", "PreExportSpaceCheck", "ConvertStage1", "ReCheckSpace",
       "ConvertStage2", "Checksum", "Cleanup", "Done" >>

\* the stage of section 4.5 that the statement at position p belongs to
StageOf(p) ==
    CASE p = "init" -> "Init"
      [] p = "login" -> "Authenticate"
      [] p = "locate" -> "Locate"
      [] p = "verify_path" -> "VerifyLocalPath"
      [] p \in {"ensure_running", "poll"} -> "EnsureRunning"
      [] p \in {"fstrim", "shutdown"} -> "Quiesce"
      [] p \in {"qemu_available", "inspect", "free_pre", "free_actual", "collision"}
            -> "PreExportSpaceCheck"
      [] p = "convert1" -> "ConvertStage1"
      [] p = "free_vdi" -> "ReCheckSpace"
      [] p = "convert2" -> "ConvertStage2"
      [] p \in {"md5", "sidecar"} -> "Checksum"
      [] p = "cleanup" -> "Cleanup"
      [] p = "Done" -> "Done"
      [] OTHER -> "Returned"

FSTRIM == "fstrim /"
SHUTDOWN == "init 0"
Cmds == {FSTRIM, SHUTDOWN}

VARIABLES
    pc,            \* position of the process in main / SSHRunner.run
    argProduct,    \* args.product (None when omitted)
    session_uuid,  \* client.session_uuid
    vm,            \* the record returned by the lookup in main (None before)
    vm_uuid, install_path, vm_state, product_name,   \* locals of main
    loop,          \* frame of ensure_vm_running while it polls
    run,           \* frame of SSHRunner.run: cmd, retries, interval, attempt, ret
    calls,         \* how often each external operation has been issued
    actual_size, qcow2_size,    \* locals of main (-1 before they are set)
    readings,      \* the free-space readings taken so far: where and how much
    fs,            \* content of every path of the working directory
    fs0,           \* fs as it was when the process started
    failed,        \* the steps that have failed
    exitCode,      \* exit status of the process (-1 while it runs)
    stages,        \* the stages entered so far, in order
    env,           \* LD_LIBRARY_PATH in os.environ and in qemu_env
    prior          \* product name of the run before this one (None in a first run)

vars == << pc, argProduct, session_uuid, vm, vm_uuid, install_path, vm_state,
           product_name, loop, run, calls,
           actual_size, qcow2_size, readings, fs, fs0, failed, exitCode, stages,
           env, prior >>

\* a value of LD_LIBRARY_PATH: None when the variable is not set, otherwise the
\* directories of the colon-separated list in order (Str(<<>>) is the empty string)
DEFAULT_LIB_PATH == Str(<< "lib", "/opt/qemu-lib" >>)
InheritedLibPaths == {None, Str(<< >>), Str(<< "/usr/lib" >>)}

\* a build_qemu_env that works on os.environ itself: what os.environ holds after it
EnvironAfterBuild_InPlace(environ, built) == built

\* env = os.environ.copy(): what os.environ holds after build_qemu_env
EnvironAfterBuild(environ, built) == environ

\* LD_LIBRARY_PATH of the dict build_qemu_env returns, from lib_path and the
\* value in os.environ
build_qemu_env(lib_path, existing) ==
    IF TruthyChars(lib_path)
    THEN IF ~TruthyChars(existing)
         THEN lib_path
         ELSE Str(lib_path[1] \o existing[1])
    ELSE existing

\* env before main has built qemu_env
StartEnv(inherited) == [inherited |-> inherited, environ |-> inherited, qemu_env |-> None]

\* run_cmd(cmd) without env: the child gets os.environ
SshRan(c) == [c EXCEPT !.sshEnv = @ \cup {env.environ}]
\* run_cmd(cmd, env=env): the child gets the dict it is given
QemuRan(c, e) == [c EXCEPT !.qemuEnv = @ \cup {e.qemu_env}]

NoCalls ==
    [ login |-> 0, lookup |-> 0, start |-> 0, settle |-> 0,
      exec |-> [c \in Cmds |-> 0], retrySleep |-> [c \in Cmds |-> 0],
      auth |-> {}, sshEnv |-> {}, qemuEnv |-> {}, slept |-> 0, help |-> 0, inspect |-> 0, convert1 |-> 0,
      convert2 |-> 0, md5 |-> 0, unlink |-> 0 ]

\* the frame of ensure_vm_running: now is time.time() counted from the moment
\* the deadline was computed (deadline is -1 before that), seen is the state of
\* the last poll.  The frame is still in the state when the function has just
\* returned and is dropped by the next statement of main
NoLoop == [now |-> 0, deadline |-> -1, drift |-> 0, polls |-> 0, sleeps |-> 0,
           seen |-> None, uuid |-> None]

NoRun == [cmd |-> "", retries |-> 0, interval |-> 0, attempt |-> 0, ret |-> ""]

\* the working directory before the run: none, one or all of the files named
\* after the VM are there
PreExisting == {{}, {QCOW2}, {VDI}, {MD5EXT}, Exts}
InitialFiles ==
    { [p \in Paths |-> IF p[1] = "myvm" /\ p[2] \in S THEN OldContent ELSE Absent] :
        S \in PreExisting }

InitCommon ==
    /\ session_uuid = None
    /\ vm = None
    /\ vm_uuid = None /\ install_path = None /\ vm_state = None
    /\ product_name = None
    /\ loop = NoLoop
    /\ calls = NoCalls
    /\ actual_size = -1 /\ qcow2_size = -1
    /\ readings = <<>>
    /\ failed = {}
    /\ exitCode = -1
    /\ prior = None

Init ==
    /\ InitCommon
    /\ env = StartEnv(Str(<< "/usr/lib" >>))
    /\ pc = "init"
    /\ argProduct \in {None, Str("prod")}
    /\ run = NoRun
    /\ fs \in InitialFiles
    /\ fs0 = fs
    /\ stages = <<"Init">>

\* ---- process exit --------------------------------------------------------
\* die(msg), or an exception nobody catches: the process ends with status 1
Die(step) ==
    /\ pc' = "Aborted"
    /\ exitCode' = 1
    /\ failed' = failed \cup {step}
    /\ stages' = Append(stages, "Aborted")

\* the statement succeeded and the process goes on at position next
Goto(next) ==
    /\ pc' = next
    /\ stages' = IF next = "run" \/ stages[Len(stages)] = StageOf(next)
                 THEN stages ELSE Append(stages, StageOf(next))
    /\ UNCHANGED << exitCode, failed >>

\* ---- main: setup, login, lookup -------------------------------------------
\* require_command("ssh"); require_command("sshpass")
RequireCommands ==
    /\ pc = "init"
    /\ \E found \in BOOLEAN :
         IF found THEN Goto("login") ELSE Die("require_command")
    /\ UNCHANGED << argProduct, session_uuid, vm, vm_uuid, install_path, vm_state,
                    product_name, loop, run, calls,
                    actual_size, qcow2_size, readings, fs, fs0, env, prior >>

\* client.login(): the request raises (bad status, malformed body), or
\* session_uuid becomes body["inventory"]["uuid"]
Login ==
    /\ pc = "login"
    /\ calls' = [calls EXCEPT !.login = @ + 1]
    /\ \/ Die("login") /\ UNCHANGED session_uuid
       \/ \E u \in {None, Str(""), Str("s1")} :
            /\ session_uuid' = u
            /\ Goto("locate")
    /\ UNCHANGED << argProduct, vm, vm_uuid, install_path, vm_state,
                    product_name, loop, run,
                    actual_size, qcow2_size, readings, fs, fs0, env, prior >>

\* a _headers that builds the headers without looking at session_uuid
HeadersOk_Unchecked == TRUE

\* _headers: "if not self.session_uuid: die(...)"
HeadersOk == Truthy(session_uuid)

\* an inventory request was sent: c with the "Authorization: OAuth <uuid>" value
\* of _headers added to the credentials that were sent
Sent(c) == [c EXCEPT !.auth = @ \cup {session_uuid}]

\* a product name that prefers the VM's name to the one the user gave
ProductName_VmNameFirst(arg, name) == Or(Or(name, arg), Str(FallbackName))

\* product_name = args.product or vm.get("name") or "vm_image"
ProductName(arg, name) == Or(Or(arg, name), Str(FallbackName))

\* vm = client.get_vm_by_ip(args.ip) and the checks of the record in main
Locate ==
    /\ pc = "locate"
    /\ IF ~HeadersOk
       THEN \* _headers: die("session uuid is missing, login first")
            /\ Die("lookup")
            /\ UNCHANGED << vm, vm_uuid, install_path, vm_state, product_name, calls >>
       ELSE /\ calls' = Sent([calls EXCEPT !.lookup = @ + 1])
            /\ \/ \* the request raises, or no inventory matches the address
                  /\ Die("lookup")
                  /\ UNCHANGED << vm, vm_uuid, install_path, vm_state, product_name >>
               \/ \E rec \in VMRecords :
                    LET path == get_root_install_path(rec.allVolumes) IN
                    /\ vm' = <<rec>>
                    /\ vm_uuid' = rec.uuid
                    /\ vm_state' = rec.state
                    /\ product_name' = ProductName(argProduct, rec.name)
                    /\ IF ~Truthy(rec.uuid) \/ ~TruthyChars(path)
                       THEN Die("record") /\ install_path' = path
                       ELSE /\ install_path' = Str(Strip(path[1]))
                            /\ Goto("verify_path")
    /\ UNCHANGED << argProduct, session_uuid, loop,
                    run, actual_size, qcow2_size, readings, fs, fs0, env, prior >>

\* Path(install_path).exists()
VerifyLocalPath ==
    /\ pc = "verify_path"
    /\ \E exists \in BOOLEAN :
         IF exists THEN Goto("ensure_running") ELSE Die("local_path")
    /\ UNCHANGED << argProduct, session_uuid, vm, vm_uuid, install_path, vm_state,
                    product_name, loop, run, calls,
                    actual_size, qcow2_size, readings, fs, fs0, env, prior >>

\* ---- ensure_vm_running ------------------------------------------------------
\* state = (initial_state or "").lower(), where main passes vm_state or ""
IsRunning(st) == Lower(Or(st, Str(""))[1]) = "running"

\* an ensure_vm_running that returns at once when it sees the running state
SettleAndReturn_NoWait(c) ==
    /\ calls' = c
    /\ Goto("fstrim")

\* time.sleep(settle_secs) and return to main, which goes on to ssh_fstrim;
\* c is calls with what the caller has done so far
SettleAndReturn(c) ==
    /\ calls' = [c EXCEPT !.settle = @ + 1, !.slept = @ + SETTLE_SECS]
    /\ Goto("fstrim")

\* entry of ensure_vm_running: a running VM only gets the settle wait; any other
\* state gets client.start_vm(vm_uuid) and the deadline of the poll loop
EnsureVmRunning ==
    /\ pc = "ensure_running"
    /\ IF IsRunning(vm_state)
       THEN SettleAndReturn(calls) /\ UNCHANGED loop
       ELSE \E accepted \in BOOLEAN :
              IF accepted
              THEN /\ calls' = Sent([calls EXCEPT !.start = @ + 1])
                   /\ loop' = [loop EXCEPT !.deadline = loop.now + MAX_WAIT]
                   /\ Goto("poll")
              ELSE /\ calls' = Sent([calls EXCEPT !.start = @ + 1])
                   /\ Die("start_vm")
                   /\ UNCHANGED loop
    /\ UNCHANGED << argProduct, session_uuid, vm, vm_uuid, install_path, vm_state,
                    product_name, run,
                    actual_size, qcow2_size, readings, fs, fs0, env, prior >>

\* what a poll can get: the request raises, no VM matches the address, or the
\* first match, which has some identifier and some state
PollResults ==
    {[kind |-> k, uuid |-> None, state |-> None] : k \in {"raise", "none"}}
        \cup [kind : {"vm"}, uuid : {Str("u1"), Str("u2")}, state : VmStates]

\* a poll that returns only when the running VM has the identifier of the located one
PollOnce_SameVmOnly(d, r) ==
    LET t == loop.now + POLL_SLEEP + d
        slept == [loop EXCEPT !.now = t, !.drift = @ + d,
                              !.polls = @ + 1, !.sleeps = @ + 1]
        polled == [slept EXCEPT !.seen = r.state]
    IN  IF r.kind = "raise"
        THEN /\ Die("poll") /\ loop' = slept
             /\ calls' = Sent(calls)
        ELSE IF r.kind = "none"
        THEN /\ loop' = slept
             /\ calls' = Sent(calls)
             /\ UNCHANGED << pc, exitCode, failed, stages >>
        ELSE IF IsRunning(r.state) /\ r.uuid = vm_uuid
        THEN \* the record the function returns on is kept with its identifier
             /\ loop' = [polled EXCEPT !.uuid = r.uuid]
             /\ SettleAndReturn(Sent(calls))
        ELSE /\ loop' = polled
             /\ calls' = Sent(calls)
             /\ UNCHANGED << pc, exitCode, failed, stages >>

\* one iteration of "while time.time() < deadline": sleep 3 s, look the VM up
\* again, return if it is running
PollOnce(d, r) ==
    LET t == loop.now + POLL_SLEEP + d
        slept == [loop EXCEPT !.now = t, !.drift = @ + d,
                              !.polls = @ + 1, !.sleeps = @ + 1]
        polled == [slept EXCEPT !.seen = r.state]
    IN  IF r.kind = "raise"
        THEN /\ Die("poll") /\ loop' = slept
             /\ calls' = Sent(calls)
        ELSE IF r.kind = "none"
        THEN /\ loop' = slept
             /\ calls' = Sent(calls)
             /\ UNCHANGED << pc, exitCode, failed, stages >>
        ELSE IF IsRunning(r.state)
        THEN \* the record the function returns on is kept with its identifier
             /\ loop' = [polled EXCEPT !.uuid = r.uuid]
             /\ SettleAndReturn(Sent(calls))
        ELSE /\ loop' = polled
             /\ calls' = Sent(calls)
             /\ UNCHANGED << pc, exitCode, failed, stages >>

PollIteration ==
    /\ pc = "poll"
    /\ loop.now < loop.deadline
    /\ \E d \in 0 .. (MaxDrift - loop.drift) : \E r \in PollResults : PollOnce(d, r)
    /\ UNCHANGED << argProduct, session_uuid, vm, vm_uuid, install_path, vm_state,
                    product_name, run,
                    actual_size, qcow2_size, readings, fs, fs0, env, prior >>

\* the loop condition fails: die("VM ... did not reach Running state within ...")
PollTimeout ==
    /\ pc = "poll"
    /\ ~(loop.now < loop.deadline)
    /\ Die("poll_timeout")
    /\ UNCHANGED << argProduct, session_uuid, vm, vm_uuid, install_path, vm_state,
                    product_name, loop, run, calls,
                    actual_size, qcow2_size, readings, fs, fs0, env, prior >>

\* ---- SSHRunner.run ----------------------------------------------------------
\* the call runner.run(ip, cmd, retries, retry_interval) made at position pc,
\* which returns to position ret
CallRun(cmd, retries, interval, ret) ==
    /\ run' = [cmd |-> cmd, retries |-> retries, interval |-> interval,
               attempt |-> 1, ret |-> ret]
    /\ Goto("run")

\* ssh_fstrim: runner.run(ip, "fstrim /", retries=3, retry_interval=30)
SshFstrim ==
    /\ pc = "fstrim"
    /\ CallRun(FSTRIM, FSTRIM_RETRIES, RETRY_INTERVAL, "shutdown")
    /\ loop' = NoLoop
    /\ UNCHANGED << argProduct, session_uuid, vm, vm_uuid, install_path, vm_state,
                    product_name, calls,
                    actual_size, qcow2_size, readings, fs, fs0, env, prior >>

\* an ssh_shutdown that retries like ssh_fstrim
SshShutdown_Retried ==
    /\ pc = "shutdown"
    /\ CallRun(SHUTDOWN, FSTRIM_RETRIES, RETRY_INTERVAL, "qemu_available")
    /\ UNCHANGED << argProduct, session_uuid, vm, vm_uuid, install_path, vm_state,
                    product_name, loop, calls,
                    actual_size, qcow2_size, readings, fs, fs0, env, prior >>

\* ssh_shutdown: runner.run(ip, "init 0"), with the defaults of run
SshShutdown ==
    /\ pc = "shutdown"
    /\ CallRun(SHUTDOWN, DEFAULT_RETRIES, RETRY_INTERVAL, "qemu_available")
    /\ UNCHANGED << argProduct, session_uuid, vm, vm_uuid, install_path, vm_state,
                    product_name, loop, calls,
                    actual_size, qcow2_size, readings, fs, fs0, env, prior >>

\* a run that sleeps after every failed attempt, the last one too
RunAttempt_SleepAfterLast(ok) ==
    IF run.attempt > run.retries
    THEN /\ Goto(run.ret)
         /\ UNCHANGED << run, calls >>
    ELSE IF ok
    THEN /\ calls' = [calls EXCEPT !.exec[run.cmd] = @ + 1]
         /\ Goto(run.ret)
         /\ UNCHANGED run
    ELSE /\ calls' = [calls EXCEPT !.exec[run.cmd] = @ + 1,
                                   !.retrySleep[run.cmd] = @ + 1,
                                   !.slept = @ + run.interval]
         /\ IF run.attempt < run.retries
            THEN /\ run' = [run EXCEPT !.attempt = @ + 1]
                 /\ UNCHANGED << pc, exitCode, failed, stages >>
            ELSE Die(run.cmd) /\ UNCHANGED run

\* one pass of "for attempt in range(1, retries + 1)": when the range is used up
\* the function falls off its end and returns; otherwise the command is executed
\* and either run returns, or sleeps and goes round again, or dies
RunAttempt(ok) ==
    IF run.attempt > run.retries
    THEN /\ Goto(run.ret)
         /\ UNCHANGED << run, calls >>
    ELSE IF ok
    THEN /\ calls' = SshRan([calls EXCEPT !.exec[run.cmd] = @ + 1])
         /\ Goto(run.ret)
         /\ UNCHANGED run
    ELSE IF run.attempt < run.retries
    THEN /\ calls' = SshRan([calls EXCEPT !.exec[run.cmd] = @ + 1,
                                          !.retrySleep[run.cmd] = @ + 1,
                                          !.slept = @ + run.interval])
         /\ run' = [run EXCEPT !.attempt = @ + 1]
         /\ UNCHANGED << pc, exitCode, failed, stages >>
    ELSE /\ calls' = SshRan([calls EXCEPT !.exec[run.cmd] = @ + 1])
         /\ Die(run.cmd)
         /\ UNCHANGED run

SSHRunner_run ==
    /\ pc = "run"
    /\ \E ok \in BOOLEAN : RunAttempt(ok)
    /\ UNCHANGED << argProduct, session_uuid, vm, vm_uuid, install_path, vm_state,
                    product_name, loop,
                    actual_size, qcow2_size, readings, fs, fs0, env, prior >>

\* ---- main: converter, space checks, conversions -------------------------------
mainUnchangedLocals ==
    UNCHANGED << argProduct, session_uuid, vm, vm_uuid, install_path, vm_state,
                 product_name, loop, run, fs0, env, prior >>

qcow2_path == WorkdirPath(product_name[1], QCOW2)
vdi_path == WorkdirPath(product_name[1], VDI)
md5_path == WithMd5Suffix(vdi_path)

\* an ensure_qemu_available that checks the file and leaves the --help probe out
EnsureQemuAvailable_NoProbe ==
    /\ pc = "qemu_available"
    /\ LET built == build_qemu_env(DEFAULT_LIB_PATH, env.environ)
           e == [env EXCEPT !.environ = EnvironAfterBuild(env.environ, built),
                            !.qemu_env = built]
       IN /\ env' = e
          /\ \E usable \in BOOLEAN :
               IF ~usable
               THEN Die("qemu_available") /\ UNCHANGED calls
               ELSE Goto("inspect") /\ UNCHANGED calls
    /\ UNCHANGED << argProduct, session_uuid, vm, vm_uuid, install_path, vm_state,
                    product_name, loop, run, fs0, prior >>
    /\ UNCHANGED << actual_size, qcow2_size, readings, fs >>

\* build_qemu_env and ensure_qemu_available: is_file, os.access and the --help
\* probe, which is run only when the first two checks pass
EnsureQemuAvailable ==
    /\ pc = "qemu_available"
    /\ LET built == build_qemu_env(DEFAULT_LIB_PATH, env.environ)
           e == [env EXCEPT !.environ = EnvironAfterBuild(env.environ, built),
                            !.qemu_env = built]
       IN /\ env' = e
          /\ \E usable \in BOOLEAN : \E helps \in BOOLEAN :
               IF ~usable
               THEN Die("qemu_available") /\ UNCHANGED calls
               ELSE /\ calls' = QemuRan([calls EXCEPT !.help = @ + 1], e)
                    /\ IF helps THEN Goto("inspect") ELSE Die("qemu_available")
    /\ UNCHANGED << argProduct, session_uuid, vm, vm_uuid, install_path, vm_state,
                    product_name, loop, run, fs0, prior >>
    /\ UNCHANGED << actual_size, qcow2_size, readings, fs >>

\* image_info = qemu_img_info(...); actual_size = int(image_info.get("actual-size", 0))
QemuImgInfo ==
    /\ pc = "inspect"
    /\ calls' = QemuRan([calls EXCEPT !.inspect = @ + 1], env)
    /\ \/ Die("inspect") /\ UNCHANGED actual_size
       \/ \E a \in ActualSizes :
            /\ actual_size' = a
            /\ Goto("free_pre")
    /\ mainUnchangedLocals
    /\ UNCHANGED << qcow2_size, readings, fs >>

\* ensure_free_space(path, required_bytes, label), reading free bytes f
ensure_free_space(f, required_bytes, label, next) ==
    /\ readings' = Append(readings, [at |-> label, free |-> f])
    /\ IF f < required_bytes THEN Die(label) ELSE Goto(next)

\* ensure_free_space(cfg.workdir, cfg.min_free_bytes, "pre-export check (>=50G)")
EnsureFreePreExport ==
    /\ pc = "free_pre"
    /\ \E f \in SizeValues : ensure_free_space(f, MIN_FREE_BYTES, "free_pre", "free_actual")
    /\ mainUnchangedLocals
    /\ UNCHANGED << calls, actual_size, qcow2_size, fs >>

\* if actual_size and shutil.disk_usage(cfg.workdir).free < actual_size: die(...)
\* (the free space is read again, and only when actual_size is not zero)
ActualSizeCheck ==
    /\ pc = "free_actual"
    /\ IF actual_size = 0
       THEN Goto("collision") /\ UNCHANGED readings
       ELSE \E f \in SizeValues :
              /\ readings' = Append(readings, [at |-> "free_actual", free |-> f])
              /\ IF f < actual_size THEN Die("free_actual") ELSE Goto("collision")
    /\ mainUnchangedLocals
    /\ UNCHANGED << calls, actual_size, qcow2_size, fs >>

\* a collision test that looks at the intermediate path only
OutputExists_IntermediateOnly == fs[qcow2_path] # Absent

\* a collision check that looks at the final path only
OutputExists_FinalOnly == fs[vdi_path] # Absent

\* if qcow2_path.exists() or vdi_path.exists(): die(...)
OutputExists == fs[qcow2_path] # Absent \/ fs[vdi_path] # Absent

CollisionCheck ==
    /\ pc = "collision"
    /\ IF OutputExists THEN Die("collision") ELSE Goto("convert1")
    /\ mainUnchangedLocals
    /\ UNCHANGED << calls, actual_size, qcow2_size, readings, fs >>

\* what a failed conversion can leave at dst: what was there, or a partial file
AfterFailedConvert(dst) ==
    {fs, [fs EXCEPT ![dst] = PartialContent]}

\* a stage 1 that tries the conversion again when it fails
ConvertStage1_Retried ==
    /\ pc = "convert1"
    /\ calls' = QemuRan([calls EXCEPT !.convert1 = @ + 1], env)
    /\ \/ /\ fs' \in AfterFailedConvert(qcow2_path)
          /\ UNCHANGED << pc, exitCode, failed, stages, qcow2_size >>
       \/ \E sz \in SizeValues :
            /\ fs' = [fs EXCEPT ![qcow2_path] = Converted(SourceContent, QCOW2)]
            /\ qcow2_size' = sz
            /\ Goto("free_vdi")
    /\ mainUnchangedLocals
    /\ UNCHANGED << actual_size, readings >>

\* convert_image(install_path -> qcow2_path) and qcow2_size = qcow2_path.stat().st_size
ConvertStage1 ==
    /\ pc = "convert1"
    /\ calls' = QemuRan([calls EXCEPT !.convert1 = @ + 1], env)
    /\ \/ /\ fs' \in AfterFailedConvert(qcow2_path)
          /\ Die("convert1")
          /\ UNCHANGED qcow2_size
       \/ \E sz \in SizeValues :
            /\ fs' = [fs EXCEPT ![qcow2_path] = Converted(SourceContent, QCOW2)]
            /\ qcow2_size' = sz
            /\ Goto("free_vdi")
    /\ mainUnchangedLocals
    /\ UNCHANGED << actual_size, readings >>

\* a re-check that asks for the fixed minimum only
EnsureFreeVdi_MinOnly ==
    /\ pc = "free_vdi"
    /\ \E f \in SizeValues :
         ensure_free_space(f, MIN_FREE_BYTES, "free_vdi", "convert2")
    /\ mainUnchangedLocals
    /\ UNCHANGED << calls, actual_size, qcow2_size, fs >>

\* ensure_free_space(cfg.workdir, max(qcow2_size, cfg.min_free_bytes), "vdi conversion stage")
EnsureFreeVdi ==
    /\ pc = "free_vdi"
    /\ \E f \in SizeValues :
         ensure_free_space(f, Max(qcow2_size, MIN_FREE_BYTES), "free_vdi", "convert2")
    /\ mainUnchangedLocals
    /\ UNCHANGED << calls, actual_size, qcow2_size, fs >>

\* convert_image(qcow2_path -> vdi_path) and the stat of vdi_path for the log
ConvertStage2 ==
    /\ pc = "convert2"
    /\ calls' = QemuRan([calls EXCEPT !.convert2 = @ + 1], env)
    /\ \/ /\ fs' \in AfterFailedConvert(vdi_path)
          /\ Die("convert2")
       \/ /\ fs' = [fs EXCEPT ![vdi_path] = Converted(fs[qcow2_path], VDI)]
          /\ Goto("md5")
    /\ mainUnchangedLocals
    /\ UNCHANGED << actual_size, qcow2_size, readings >>

\* the text written to the sidecar: f"{vdi_md5}  {vdi_path.name}\n"; as a
\* content number the digest is kept apart from the file contents by + 16
SidecarText(digest) == 16 + digest
\* the digest a sidecar text records
SidecarDigest(text) == text - 16

\* vdi_md5 = md5_file(vdi_path); md5_path.write_text(...)
ChecksumAndSidecar ==
    /\ pc = "md5"
    /\ calls' = [calls EXCEPT !.md5 = @ + 1]
    /\ \/ \* md5_file raises, or write_text raises and may leave a partial sidecar
          /\ Die("checksum")
          /\ fs' \in {fs, [fs EXCEPT ![md5_path] = PartialContent]}
       \/ /\ fs' = [fs EXCEPT ![md5_path] = SidecarText(Md5(fs[vdi_path]))]
          /\ Goto("cleanup")
    /\ mainUnchangedLocals
    /\ UNCHANGED << actual_size, qcow2_size, readings >>

\* a cleanup that unlinks the final artifact instead of the intermediate one
Cleanup_RemovesFinal ==
    /\ pc = "cleanup"
    /\ calls' = [calls EXCEPT !.unlink = @ + 1]
    /\ \E removed \in BOOLEAN :
         /\ fs' = IF removed THEN [fs EXCEPT ![vdi_path] = Absent] ELSE fs
         /\ failed' = IF removed THEN failed ELSE failed \cup {"unlink"}
         /\ pc' = "Done" /\ exitCode' = 0
         /\ stages' = Append(stages, "Done")
    /\ mainUnchangedLocals
    /\ UNCHANGED << actual_size, qcow2_size, readings >>

\* a cleanup for which a failed unlink is fatal
Cleanup_UnlinkFatal ==
    /\ pc = "cleanup"
    /\ calls' = [calls EXCEPT !.unlink = @ + 1]
    /\ \E removed \in BOOLEAN :
         IF removed
         THEN /\ fs' = [fs EXCEPT ![qcow2_path] = Absent]
              /\ pc' = "Done" /\ exitCode' = 0 /\ UNCHANGED failed
              /\ stages' = Append(stages, "Done")
         ELSE UNCHANGED fs /\ Die("unlink")
    /\ mainUnchangedLocals
    /\ UNCHANGED << actual_size, qcow2_size, readings >>

\* try: qcow2_path.unlink() except Exception: log a warning; then "flow completed"
Cleanup ==
    /\ pc = "cleanup"
    /\ calls' = [calls EXCEPT !.unlink = @ + 1]
    /\ \E removed \in BOOLEAN :
         IF removed
         THEN /\ fs' = [fs EXCEPT ![qcow2_path] = Absent]
              /\ pc' = "Done" /\ exitCode' = 0 /\ UNCHANGED failed
              /\ stages' = Append(stages, "Done")
         ELSE /\ UNCHANGED fs
              /\ pc' = "Done" /\ exitCode' = 0 /\ failed' = failed \cup {"unlink"}
              /\ stages' = Append(stages, "Done")
    /\ mainUnchangedLocals
    /\ UNCHANGED << actual_size, qcow2_size, readings >>

Next ==
    \/ RequireCommands \/ Login \/ Locate \/ VerifyLocalPath
    \/ EnsureVmRunning \/ PollIteration \/ PollTimeout
    \/ SshFstrim \/ SshShutdown \/ SSHRunner_run
    \/ EnsureQemuAvailable \/ QemuImgInfo \/ EnsureFreePreExport \/ ActualSizeCheck
    \/ CollisionCheck \/ ConvertStage1 \/ EnsureFreeVdi \/ ConvertStage2
    \/ ChecksumAndSidecar \/ Cleanup

Spec == Init /\ [][Next]_vars

\* ---- SSHRunner.run on its own, for any attempt budget --------------------------
RetryBudgets == -1 .. MaxRetries
Intervals == {1, 5, RETRY_INTERVAL}
NoFiles == [p \in Paths |-> Absent]

InitRun ==
    /\ InitCommon
    /\ \E inherited \in InheritedLibPaths : env = StartEnv(inherited)
    /\ pc = "run"
    /\ argProduct = None
    /\ run \in [cmd : Cmds, retries : RetryBudgets, interval : Intervals,
                attempt : {1}, ret : {"returned"}]
    /\ fs = NoFiles
    /\ fs0 = fs
    /\ stages = <<"Run">>

NextRun == SSHRunner_run

SpecRun == InitRun /\ [][NextRun]_vars

\* ---- the export for every LD_LIBRARY_PATH the process can inherit ----------------
InitEnv ==
    /\ InitCommon
    /\ \E inherited \in InheritedLibPaths : env = StartEnv(inherited)
    /\ pc = "init"
    /\ argProduct \in {None, Str("prod")}
    /\ run = NoRun
    /\ fs = NoFiles
    /\ fs0 = fs
    /\ stages = <<"Init">>

SpecEnv == InitEnv /\ [][Next]_vars

\* ---- the program started a second time ------------------------------------------
\* a run has aborted after stage 1 wrote the intermediate file, and the program is
\* started again with the same arguments in the same working directory and
\* environment: main begins anew with the files as the first process left them
StartAgain ==
    /\ pc = "Aborted"
    /\ prior = None
    /\ qcow2_size >= 0
    /\ pc' = "init"
    /\ prior' = product_name
    /\ fs0' = fs
    /\ session_uuid' = None
    /\ vm' = None
    /\ vm_uuid' = None /\ install_path' = None /\ vm_state' = None
    /\ product_name' = None
    /\ loop' = NoLoop
    /\ run' = NoRun
    /\ calls' = NoCalls
    /\ actual_size' = -1 /\ qcow2_size' = -1
    /\ readings' = <<>>
    /\ failed' = {}
    /\ exitCode' = -1
    /\ stages' = <<"Init">>
    /\ env' = StartEnv(env.inherited)
    /\ UNCHANGED << argProduct, fs >>

InitRerun ==
    /\ InitCommon
    /\ env = StartEnv(None)
    /\ pc = "init"
    /\ argProduct \in {None, Str("prod")}
    /\ run = NoRun
    /\ fs = NoFiles
    /\ fs0 = fs
    /\ stages = <<"Init">>

NextRerun == Next \/ StartAgain

SpecRerun == InitRerun /\ [][NextRerun]_vars

\* ---- properties ----------------------------------------------------------------
NoPowerOn == calls.start = 0
NoRemoteCommand == \A c \in Cmds : calls.exec[c] = 0
NoConverter ==
    calls.help = 0 /\ calls.inspect = 0 /\ calls.convert1 = 0 /\ calls.convert2 = 0

\* the volumes tagged Root, in the order of the record
RootVolumes(vols) == SelectSeq(vols, LAMBDA v : v.type = "Root")

\* a record that cannot be exported: no identifier, no Root volume, or a Root
\* volume whose install path is absent or empty
Unexportable(rec) ==
    \/ rec.uuid \in {None, Str("")}
    \/ RootVolumes(rec.allVolumes) = <<>>
    \/ RootVolumes(rec.allVolumes)[1].installPath \in {None, Str(<<>>)}

\* C1: whenever the lookup has returned a record without identifier, without a
\* Root volume, or whose Root volume has no or an empty install path, the run is
\* Aborted and no power-on request, remote command or converter invocation has
\* been issued
C1_UnexportableRecordAborts ==
    (vm # None /\ Unexportable(vm[1]))
        => (pc = "Aborted" /\ exitCode = 1
            /\ NoPowerOn /\ NoRemoteCommand /\ NoConverter /\ fs = fs0)

\* a record whose only volume is a data volume has been returned and the run
\* is Aborted
C1_Witness ==
    /\ vm # None
    /\ vm[1].uuid = Str("u1")
    /\ RootVolumes(vm[1].allVolumes) = <<>>
    /\ vm[1].allVolumes # <<>>
    /\ pc = "Aborted"

\* the free-space readings taken at the pre-export checkpoint
PreExportReadings ==
    {readings[i].free : i \in {j \in 1 .. Len(readings) :
                                 readings[j].at \in {"free_pre", "free_actual"}}}

\* C2 (as claimed): once a free-space reading of the pre-export checkpoint is
\* below max(MIN_FREE_BYTES, actual size of the source image), no conversion is
\* started, no file is written and the run does not reach Done
C2_LowReadingStopsExport ==
    (actual_size >= 0
     /\ \E f \in PreExportReadings : f < Max(MIN_FREE_BYTES, actual_size))
        => (calls.convert1 = 0 /\ calls.convert2 = 0 /\ fs = fs0 /\ pc # "Done")

\* C3: when the intermediate or the final output path exists before the run, the
\* run never gets past the collision check (so it can only end Aborted), starts
\* no conversion and no checksum, and every file is as it was before the run
C3_CollisionLeavesFiles ==
    (product_name # None
     /\ (fs0[<<product_name[1], QCOW2>>] # Absent \/ fs0[<<product_name[1], VDI>>] # Absent))
        => (/\ pc \notin {"convert1", "free_vdi", "convert2", "md5", "cleanup", "Done"}
            /\ calls.convert1 = 0 /\ calls.convert2 = 0 /\ calls.md5 = 0
            /\ calls.unlink = 0
            /\ fs = fs0)

\* only the final output path existed; the run was Aborted by the collision check
C3_Witness ==
    /\ pc = "Aborted"
    /\ "collision" \in failed
    /\ fs0[<<"myvm", VDI>>] # Absent
    /\ fs0[<<"myvm", QCOW2>>] = Absent
    /\ fs = fs0

\* C4 (as claimed): for a VM that was not running at lookup there is exactly one
\* power-on request, every poll follows a sleep of POLL_SLEEP seconds, and
\* ensure_vm_running returns to main (which goes on to fstrim) only when a poll
\* made no later than the deadline saw the VM running
C4_PollUntilDeadline ==
    /\ calls.start <= 1
    /\ (pc = "poll" => (calls.start = 1 /\ loop.sleeps = loop.polls
                        /\ loop.now >= POLL_SLEEP * loop.polls))
    /\ ((pc = "fstrim" /\ calls.start = 1)
            => (loop.seen = Str("Running") /\ loop.now <= loop.deadline))

\* executions and sleeps of the current call of SSHRunner.run
RunExecs == calls.exec[run.cmd]
RunSleeps == calls.retrySleep[run.cmd]

\* C5: for an attempt budget n >= 1, run returns after k <= n executions and
\* k - 1 sleeps of the interval, or dies after n executions and n - 1 sleeps
C5_RunAttemptsAndSleeps ==
    run.retries >= 1 =>
        /\ calls.slept = RunSleeps * run.interval
        /\ pc = "run" => (RunExecs = run.attempt - 1 /\ RunSleeps = RunExecs)
        /\ pc = "returned" => (/\ RunExecs \in 1 .. run.retries
                               /\ RunSleeps = RunExecs - 1)
        /\ pc = "Aborted" => (/\ RunExecs = run.retries
                              /\ RunSleeps = run.retries - 1)
        /\ pc \in {"run", "returned", "Aborted"}

\* a command that fails twice and then succeeds, with a budget of 3
C5_Witness ==
    /\ pc = "returned"
    /\ run.retries = 3
    /\ RunExecs = 3
    /\ RunSleeps = 2
    /\ calls.slept = 2 * run.interval

\* the product name as the claim has it: the user's when given, else the VM's
ClaimedProduct == IF argProduct # None THEN argProduct ELSE vm[1].name

\* the product name: the user's when it is not empty, else the display name of
\* the VM when it is not empty, else "vm_image"
ExpectedProduct ==
    IF argProduct \notin {None, Str("")} THEN argProduct
    ELSE IF vm[1].name \notin {None, Str("")} THEN vm[1].name
    ELSE Str("vm_image")

\* at Done the files of product name q are as they should be: final artifact and
\* sidecar exist, the intermediate is gone when its unlink succeeded
OutputsOf(q) ==
    /\ fs[<<q, "vdi">>] # Absent
    /\ fs[<<q, "vdi.md5">>] # Absent
    /\ ("unlink" \notin failed => fs[<<q, "qcow2">>] = Absent)

\* C6 (as claimed): at Done the outputs exist under the product name, which is
\* the user-supplied name when given and otherwise the VM's display name
C6_OutputsUnderClaimedName ==
    pc = "Done" => (product_name = ClaimedProduct /\ OutputsOf(product_name[1]))

\* C6 (amended): at Done the outputs exist under the product name, which is the
\* user-supplied name when not empty, otherwise the VM's display name when not
\* empty, otherwise "vm_image"
C6_OutputsUnderProductName ==
    pc = "Done" => (product_name = ExpectedProduct /\ OutputsOf(ExpectedProduct[1]))

\* a run is Done for a VM without display name and without a name from the user
C6_Witness ==
    /\ pc = "Done"
    /\ argProduct = None
    /\ vm[1].name = None
    /\ OutputsOf("vm_image")
    /\ "unlink" \notin failed

\* C7: from the sidecar write to Done the digest recorded in the sidecar is the
\* md5 of the final artifact as it is on disk
C7_SidecarMatchesArtifact ==
    pc \in {"cleanup", "Done"}
        => (/\ fs[<<product_name[1], "vdi">>] # Absent
            /\ SidecarDigest(fs[<<product_name[1], "vdi.md5">>])
                  = Md5(fs[<<product_name[1], "vdi">>]))

\* Done after a cleanup that removed the intermediate file
C7_Witness ==
    /\ pc = "Done"
    /\ calls.unlink = 1
    /\ "unlink" \notin failed
    /\ fs[<<product_name[1], "qcow2">>] = Absent
    /\ fs[<<product_name[1], "vdi.md5">>] # Absent

\* the failures that end the run
FatalSteps ==
    { "require_command", "login", "lookup", "record", "local_path", "start_vm",
      "poll", "poll_timeout", FSTRIM, SHUTDOWN, "qemu_available", "inspect",
      "free_pre", "free_actual", "collision", "convert1", "free_vdi", "convert2",
      "checksum" }

\* C8: a failed unlink of the intermediate file is the only failure a run that
\* reaches Done can have had, and it always ends in Done with status 0; every
\* other failure ends the run Aborted with status 1, and a run is Aborted only
\* by such a failure
C8_OnlyCleanupFailureIsNotFatal ==
    /\ failed \subseteq FatalSteps \cup {"unlink"}
    /\ pc = "Done" => (failed \subseteq {"unlink"} /\ exitCode = 0)
    /\ "unlink" \in failed => pc = "Done"
    /\ failed \cap FatalSteps # {} => (pc = "Aborted" /\ exitCode = 1)
    /\ pc = "Aborted" => failed \cap FatalSteps # {}
    /\ pc \notin {"Done", "Aborted"} => (failed = {} /\ exitCode = -1)

\* Done although the intermediate file could not be removed
C8_Witness ==
    /\ pc = "Done"
    /\ exitCode = 0
    /\ failed = {"unlink"}
    /\ fs[<<product_name[1], "qcow2">>] # Absent

\* the shutdown command has returned success
ShutdownSucceeded ==
    /\ calls.exec[SHUTDOWN] = 1
    /\ SHUTDOWN \notin failed
    /\ ~(pc = "run" /\ run.cmd = SHUTDOWN)

\* C9: the shutdown command is executed at most once and never slept for; when
\* it fails the run is Aborted; inspect and stage-1 convert happen only after
\* it has returned success
C9_ShutdownOnceBeforeConverter ==
    /\ calls.exec[SHUTDOWN] <= 1
    /\ calls.retrySleep[SHUTDOWN] = 0
    /\ SHUTDOWN \in failed => (pc = "Aborted" /\ NoConverter)
    /\ (calls.inspect > 0 \/ calls.convert1 > 0) => ShutdownSucceeded

\* the one execution of shutdown failed and the run is Aborted
C9_Witness ==
    /\ pc = "Aborted"
    /\ SHUTDOWN \in failed
    /\ calls.exec[SHUTDOWN] = 1
    /\ calls.exec[FSTRIM] >= 1

IsPrefix(s, t) == Len(s) <= Len(t) /\ s = SubSeq(t, 1, Len(s))

\* C10: the stages entered so far are an initial part of the fixed order, ended
\* by Aborted when a stage failed; each conversion is invoked at most once; the
\* shutdown is executed only after an fstrim
C10_StagesInFixedOrder ==
    /\ IF pc = "Aborted"
       THEN /\ stages[Len(stages)] = "Aborted"
            /\ IsPrefix(SubSeq(stages, 1, Len(stages) - 1), StageOrder)
            /\ Len(stages) >= 2
       ELSE /\ IsPrefix(stages, StageOrder)
            /\ failed \subseteq {"unlink"}
            /\ pc # "run" => stages[Len(stages)] = StageOf(pc)
    /\ calls.convert1 <= 1 /\ calls.convert2 <= 1
    /\ calls.exec[SHUTDOWN] > 0 => calls.exec[FSTRIM] > 0
    /\ calls.convert2 > 0 => calls.convert1 > 0

\* a run went through every stage in order
C10_Witness ==
    /\ pc = "Done"
    /\ stages = StageOrder
    /\ calls.convert1 = 1 /\ calls.convert2 = 1

\* an inventory request (lookup, power-on or poll) has been sent
InventoryRequested == calls.lookup > 0 \/ calls.start > 0 \/ loop.polls > 0

\* C11: there is one login at most; an inventory request is sent only after a
\* login that succeeded and gave a non-empty credential, and carries exactly that
\* credential; after a failed login or one without credential the run sends no
\* lookup, power-on, remote command or converter call and can only abort
C11_RequestsCarryLoginCredential ==
    /\ calls.login <= 1
    /\ InventoryRequested
          => (/\ calls.login = 1 /\ "login" \notin failed
              /\ session_uuid \notin {None, Str("")}
              /\ calls.auth = {session_uuid})
    /\ ~InventoryRequested => calls.auth = {}
    /\ (calls.login = 1 /\ ("login" \in failed \/ session_uuid \in {None, Str("")}))
          => (/\ pc \in {"locate", "Aborted"}
              /\ ~InventoryRequested /\ NoPowerOn /\ NoRemoteCommand /\ NoConverter
              /\ fs = fs0)

\* the login answered with an empty credential and the run aborted before the
\* lookup was sent
C11_Witness ==
    /\ pc = "Aborted"
    /\ calls.login = 1
    /\ session_uuid = Str("")
    /\ "lookup" \in failed
    /\ calls.lookup = 0

\* the spellings of the running state that the lookup can return
RunningSpellings == {"running", "Running", "RUNNING"}

\* the lookup found the VM in the running state
InitiallyRunning == vm_state # None /\ vm_state[1] \in RunningSpellings

\* fstrim is about to be sent, or was sent
FstrimIssued ==
    \/ pc = "run" /\ run.cmd = FSTRIM
    \/ calls.exec[FSTRIM] > 0

\* C12: a VM found running is never powered on or polled; ensure_vm_running
\* returns only on a running state it has seen (the lookup's or a poll's) and
\* after one settle wait of SETTLE_SECS, and fstrim is sent only after it
C12_SettleOnceBeforeFstrim ==
    /\ InitiallyRunning
          => (calls.start = 0 /\ loop.polls = 0 /\ loop.sleeps = 0 /\ loop.deadline = -1)
    /\ calls.settle <= 1
    /\ pc = "fstrim"
          => (/\ calls.settle = 1
              /\ calls.slept = SETTLE_SECS
              /\ IF calls.start = 0
                 THEN InitiallyRunning
                 ELSE loop.polls > 0 /\ loop.seen # None /\ loop.seen[1] \in RunningSpellings)
    /\ FstrimIssued => (calls.settle = 1 /\ calls.slept >= SETTLE_SECS)
    /\ calls.settle = 0 => NoRemoteCommand

\* the VM was found running and fstrim is sent after the settle wait, with no
\* power-on and no poll
C12_Witness ==
    /\ pc = "run" /\ run.cmd = FSTRIM
    /\ InitiallyRunning
    /\ calls.start = 0
    /\ calls.settle = 1
    /\ calls.exec[FSTRIM] = 1

\* the VM was found stopped, was started and polled, and fstrim is about to be
\* sent after the settle wait
C12_WitnessStarted ==
    /\ pc = "fstrim"
    /\ ~InitiallyRunning
    /\ calls.start = 1
    /\ loop.polls > 1
    /\ calls.settle = 1

\* LD_LIBRARY_PATH as the converter must get it: the bundled directories, then
\* the directories the process inherited, if any
Augmented(inherited) ==
    IF inherited \in {None, Str(<< >>)}
    THEN Str(<< "lib", "/opt/qemu-lib" >>)
    ELSE Str(<< "lib", "/opt/qemu-lib" >> \o inherited[1])

\* C13: os.environ always holds the inherited LD_LIBRARY_PATH; every ssh child
\* is run with the inherited value and every qemu-img child (help probe, inspect,
\* convert) with the augmented one, which no ssh child and not the process has
C13_AugmentedPathOnlyForConverter ==
    /\ env.environ = env.inherited
    /\ Augmented(env.inherited) # env.inherited
    /\ calls.sshEnv = IF NoRemoteCommand THEN {} ELSE {env.inherited}
    /\ calls.qemuEnv = IF NoConverter THEN {} ELSE {Augmented(env.inherited)}
    /\ env.qemu_env \in {None, Augmented(env.inherited)}

\* a complete run of a process that inherited a library path: the converter got
\* the bundled directories before the inherited one, ssh the inherited one only
C13_Witness ==
    /\ pc = "Done"
    /\ env.inherited = Str(<< "/usr/lib" >>)
    /\ env.environ = Str(<< "/usr/lib" >>)
    /\ calls.qemuEnv = {Str(<< "lib", "/opt/qemu-lib", "/usr/lib" >>)}
    /\ calls.sshEnv = {Str(<< "/usr/lib" >>)}
    /\ calls.convert2 = 1

\* the free-space readings taken at the re-check between the two conversions
ReCheckReadings ==
    {readings[i].free : i \in {j \in 1 .. Len(readings) : readings[j].at = "free_vdi"}}

\* what the re-check must find free: the larger of the size of the intermediate
\* file and the fixed minimum
ReCheckThreshold == IF qcow2_size > MIN_FREE_BYTES THEN qcow2_size ELSE MIN_FREE_BYTES

\* C14: stage 2 is started only after stage 1 succeeded and a re-check reading of
\* at least max(size of the intermediate file, MIN_FREE_BYTES); after a reading
\* below it the run is Aborted, stage 2 and the checksum were never started, the
\* final file is absent and the sidecar path is as it was before the run
C14_ReCheckGuardsStage2 ==
    /\ calls.convert2 > 0
          => (/\ qcow2_size >= 0 /\ "convert1" \notin failed
              /\ ReCheckReadings # {}
              /\ \A f \in ReCheckReadings : f >= ReCheckThreshold)
    /\ (\E f \in ReCheckReadings : f < ReCheckThreshold)
          => (/\ pc = "Aborted" /\ "free_vdi" \in failed
              /\ calls.convert2 = 0 /\ calls.md5 = 0
              /\ fs[vdi_path] = Absent
              /\ fs[md5_path] = fs0[md5_path])

\* the re-check read the fixed minimum exactly, which is less than the size of
\* the intermediate file, and the run aborted
C14_Witness ==
    /\ pc = "Aborted"
    /\ "free_vdi" \in failed
    /\ qcow2_size = MIN_FREE_BYTES + 1
    /\ ReCheckReadings = {MIN_FREE_BYTES}
    /\ fs[qcow2_path] # Absent
    /\ fs[vdi_path] = Absent

\* C15: a run that aborts after stage 1 has written the intermediate file deletes
\* nothing: the intermediate file is still there, and so is a final file that
\* stage 2 completed.  A later run with the same product name finds the
\* intermediate file, dies at the collision check when it gets there, starts no
\* conversion and no checksum and changes no file
C15_DebrisBlocksNextRun ==
    /\ (pc = "Aborted" /\ qcow2_size >= 0)
          => (/\ calls.unlink = 0
              /\ fs[qcow2_path] = Converted(SourceContent, QCOW2)
              /\ (calls.convert2 = 1 /\ "convert2" \notin failed)
                    => fs[vdi_path] = Converted(fs[qcow2_path], VDI))
    /\ (prior # None /\ product_name = prior)
          => (/\ fs[<<prior[1], QCOW2>>] # Absent
              /\ pc \notin {"convert1", "free_vdi", "convert2", "md5", "cleanup", "Done"}
              /\ calls.convert1 = 0 /\ calls.convert2 = 0 /\ calls.md5 = 0
              /\ calls.unlink = 0
              /\ fs = fs0
              /\ pc = "collision" => OutputExists)

\* a second run with the same product name has aborted at the collision check on
\* the intermediate file the first run left when its stage 2 failed
C15_Witness ==
    /\ prior = Str("prod")
    /\ product_name = prior
    /\ pc = "Aborted"
    /\ "collision" \in failed
    /\ fs[<<"prod", QCOW2>>] = Converted(SourceContent, QCOW2)
    /\ fs[<<"prod", VDI>>] = PartialContent

\* C16 (as claimed): the poll loop makes at most MAX_WAIT / POLL_SLEEP polls, is
\* left once the deadline is reached, and ensure_vm_running never returns to main
\* on a poll that was made after the deadline
C16_PollLoopEndsAtDeadline ==
    /\ loop.polls <= MAX_WAIT \div POLL_SLEEP
    /\ loop.polls = loop.sleeps
    /\ pc = "poll" => loop.now < loop.deadline + POLL_SLEEP + MaxDrift
    /\ (pc = "fstrim" /\ loop.polls > 0) => ~(loop.now > loop.deadline)

\* C17 (as claimed): for every attempt budget, run returns only after at least
\* one execution of the command, the last of which exited zero; an execution that
\* failed with no attempt left, or a budget with no attempt at all, ends the
\* process
C17_ReturnNeedsExecution ==
    /\ pc = "returned" => (RunExecs >= 1 /\ RunSleeps = RunExecs - 1)
    /\ pc = "Aborted" => (failed = {run.cmd} /\ RunExecs >= 1)
    /\ run.retries <= 0 => pc \in {"run", "Aborted"}

\* qemu-img was asked to inspect or to convert
ConverterUsed == calls.inspect > 0 \/ calls.convert1 > 0 \/ calls.convert2 > 0

\* C18: inspect and the conversions are run only after the availability check
\* of this run has passed, --help probe included; when the check fails the run is
\* Aborted, qemu-img was never asked to inspect or convert, and no file changed
C18_ConverterVerifiedFirst ==
    /\ calls.help <= 1
    /\ (ConverterUsed \/ pc \in {"inspect", "free_pre", "free_actual", "collision"})
          => (calls.help = 1 /\ "qemu_available" \notin failed)
    /\ "qemu_available" \in failed
          => (pc = "Aborted" /\ ~ConverterUsed /\ calls.md5 = 0 /\ fs = fs0)
    /\ pc = "qemu_available" => (calls.help = 0 /\ ~ConverterUsed)

\* the binary is there and executable, the --help probe fails, the run aborts
C18_Witness ==
    /\ pc = "Aborted"
    /\ failed = {"qemu_available"}
    /\ calls.help = 1
    /\ ~ConverterUsed
    /\ fs = fs0

\* ensure_vm_running has just returned from its poll loop
ReturnedFromPoll == pc = "fstrim" /\ loop.polls > 0

\* C19 (as claimed): the poll loop is left for fstrim only on a poll that reports
\* the VM with the identifier of the located VM
C19_ReturnsOnLocatedVm ==
    ReturnedFromPoll => loop.uuid = vm_uuid

\* C19 (amended): the poll loop is left for fstrim on the first poll whose first
\* match is reported running, whatever its identifier; while the loop goes on, no
\* poll has reported a running first match
C19_ReturnsOnFirstMatchRunning ==
    /\ ReturnedFromPoll
          => (/\ loop.seen # None /\ loop.seen[1] \in RunningSpellings
              /\ loop.uuid # None)
    /\ pc = "poll" => (loop.seen = None \/ loop.seen[1] \notin RunningSpellings)

\* the poll loop returned on a running VM whose identifier is not the located one
C19_Witness ==
    /\ ReturnedFromPoll
    /\ loop.seen = Str("Running")
    /\ vm_uuid = Str("u1")
    /\ loop.uuid = Str("u2")

\* C20 (as claimed): every file that was in the working directory before the run
\* has the content it had then, whether it is an intermediate file, a final file
\* or a checksum sidecar
C20_PreExistingFilesUntouched ==
    \A p \in Paths : fs0[p] # Absent => fs[p] = fs0[p]

====
